---------------------------- MODULE Spec2Model ----------------------------
(***************************************************************************)
(* Model of nrx-backend's server.js (the hardened server, lines 1-591; the *)
(* rest of the file is the previous revision of the same program).         *)
(*                                                                         *)
(* The program keeps its whole state in one JSON file.  Every HTTP handler *)
(* and the hourly cleanup timer is one synchronous function: readDB, then  *)
(* mutation of the parsed object, then writeDB.  Each is one action here.  *)
(*                                                                         *)
(* Numbers: token amounts are integers in units of 0.0001 NRX, so the      *)
(* minimum withdrawal 0.001 is 10 units.  Time is an integer tick of 12    *)
(* hours; an ISO timestamp is the tick, a date string is the tick's day.   *)
(* A request value is a tagged record: undefined, a number, or a value     *)
(* that Number() turns into NaN.                                           *)
(***************************************************************************)
EXTENDS Integers, Sequences, FiniteSets, TLC

VARIABLES
    file,        \* database.json: [st, db], st in absent / empty / torn / ok
    tmp,         \* database.json.tmp: absent / torn / ok
    DEFAULT_DB,  \* the in-memory DEFAULT_DB object of the running process
    up,          \* the process is running and serving requests
    now,         \* the wall clock, in ticks
    nextId,      \* generateId: next fresh id per kind (session, boost, ...)
    resp,        \* the last response sent (with what readDB/writeDB did)
    completedOk  \* withdrawal ids for which a completion answered success

vars == <<file, tmp, DEFAULT_DB, up, now, nextId, resp, completedOk>>

---------------------------------------------------------------------------
(* Bounds of the model *)
MaxSessions == 1
MaxWithdrawals == 1
MaxBoosts == 1
MaxActivities == 1
MaxTime == 1
MaxVerifies == 2
LongTime == 3
MaxLogged == 1002            \* more activities than the list keeps

(* Program constants *)
MinWithdrawal == 10          \* 0.001 NRX
DefaultSpeed == 20
BoostBase == 10
BoostSpan == 15
TicksPerDay == 2             \* 24 * 60 * 60 * 1000 ms
ActivityCap == 1000

NoId == 0                    \* a missing (falsy) id in a request body

---------------------------------------------------------------------------
(* Request values *)
Undef == [t |-> "undefined", n |-> 0]
NaNv == [t |-> "NaN", n |-> 0]
Num(k) == [t |-> "number", n |-> k]

\* x || d on stored numbers: 0 is falsy
OrElse(x, d) == IF x = 0 THEN d ELSE x

\* Number(v) || d for a request value v: NaN and 0 are falsy
NumberOr(v, d) == IF v.t = "number" /\ v.n # 0 THEN v.n ELSE d

---------------------------------------------------------------------------
(* The snapshot *)
DefaultStats ==
    [totalUsers |-> 0, totalMined |-> 0, totalWithdrawals |-> 0,
     activeSessions |-> 0, totalBoostCount |-> 0, totalWithdrawalCount |-> 0]

DefaultSnapshot ==
    [users |-> <<>>, sessions |-> <<>>, withdrawals |-> <<>>,
     activities |-> <<>>, boosts |-> <<>>, stats |-> DefaultStats]

Put(f, k, v) == [x \in DOMAIN f \cup {k} |-> IF x = k THEN v ELSE f[x]]
Without(f, ks) == [x \in DOMAIN f \ ks |-> f[x]]
Includes(seq, x) == \E i \in 1..Len(seq) : seq[i] = x

RECURSIVE SumMined(_, _)
SumMined(sessions, ids) ==
    IF ids = {} THEN 0
    ELSE LET s == CHOOSE x \in ids : TRUE
         IN  OrElse(sessions[s].minedTokens, 0) + SumMined(sessions, ids \ {s})

---------------------------------------------------------------------------
(* readDB *)
ReadKinds == {"ok", "err"}

\* rd = "err": readFileSync throws although the file is there.  An absent or
\* torn file throws too (ENOENT, JSON.parse).  The catch returns a deep copy
\* of DEFAULT_DB.  An empty file parses as {}: Object.assign makes a shallow
\* copy, so the collections returned ARE those of DEFAULT_DB (alias).
ReadDB(rd) ==
    IF rd = "ok" /\ file.st = "ok" THEN [db |-> file.db, alias |-> FALSE]
    ELSE IF rd = "ok" /\ file.st = "empty" THEN [db |-> DEFAULT_DB, alias |-> TRUE]
    ELSE [db |-> DEFAULT_DB, alias |-> FALSE]

\* What the handler's mutations leave in DEFAULT_DB: with an aliased load the
\* collections are shared; stats is always a fresh copy.
Aliased(ld, ndb) ==
    IF ld.alias THEN [ndb EXCEPT !.stats = DefaultStats] ELSE DEFAULT_DB

---------------------------------------------------------------------------
(* writeDB *)
WriteKinds == {"ok", "failTmp", "failRename", "crashTmp", "crashRename"}
Crashes(wo) == wo \in {"crashTmp", "crashRename"}

\* The previous revision's writeDB: writeFileSync straight onto the live file.
WriteDBInPlace(data, wo) ==
    /\ file' = CASE wo = "ok" -> [st |-> "ok", db |-> data]
                 [] wo \in {"failTmp", "crashTmp"} -> [st |-> "torn", db |-> DefaultSnapshot]
                 [] OTHER -> [st |-> "ok", db |-> data]
    /\ tmp' = tmp
    /\ up' = ~Crashes(wo)

\* writeFileSync(tmp) then renameSync(tmp, DB_FILE); any exception returns
\* false.  A crash ends the process at that point.
WriteDB(data, wo) ==
    /\ file' = IF wo = "ok" THEN [st |-> "ok", db |-> data] ELSE file
    /\ tmp' = CASE wo = "ok" -> "absent"
                [] wo \in {"failTmp", "crashTmp"} -> "torn"
                [] OTHER -> "ok"
    /\ up' = ~Crashes(wo)

\* resp: the operation, its arguments (sid, ref: the boost or withdrawal id,
\* arg: the body), the answer (code, val, val2) and what readFileSync (rd)
\* and writeDB (wr) did in it.
NoResp == [op |-> "none", code |-> "none", sid |-> NoId, ref |-> NoId,
           arg |-> Undef, val |-> 0, val2 |-> 0, rd |-> "none", wr |-> "none"]

\* The handler mutated the loaded snapshot ld.db into ndb, called writeDB and
\* answers r (r.code is what it answers when writeDB returned true; bad is
\* what it answers when writeDB returned false).
Save(ld, ndb, alias, wo, r, bad) ==
    /\ WriteDB(ndb, wo)
    /\ DEFAULT_DB' = IF Crashes(wo) THEN DefaultSnapshot ELSE alias
    /\ resp' = IF Crashes(wo) THEN [NoResp EXCEPT !.op = "crash", !.wr = wo]
               ELSE [r EXCEPT !.code = IF wo = "ok" THEN r.code ELSE bad]

\* A rejection that records the request time in the stored sessions.
RejectTouching(r) ==
    /\ resp' = r
    /\ file' = [file EXCEPT !.db.sessions =
                    [s \in DOMAIN @ |-> [@[s] EXCEPT !.lastActive = now]]]
    /\ UNCHANGED <<tmp, DEFAULT_DB, up>>

\* The handler returned before mutating anything.
Reject(r) ==
    /\ resp' = r
    /\ UNCHANGED <<file, tmp, DEFAULT_DB, up>>

R(op, code, sid, ref, val, val2, rd, wo) ==
    [op |-> op, code |-> code, sid |-> sid, ref |-> ref, arg |-> Undef,
     val |-> val, val2 |-> val2, rd |-> rd, wr |-> wo]

RA(op, code, sid, ref, arg, val, val2, rd, wo) ==
    [op |-> op, code |-> code, sid |-> sid, ref |-> ref, arg |-> arg,
     val |-> val, val2 |-> val2, rd |-> rd, wr |-> wo]

---------------------------------------------------------------------------
(* POST /api/session *)
NewSession(sid) ==
    [id |-> sid, startedAt |-> now, lastActive |-> now, minedTokens |-> 0,
     miningSpeed |-> DefaultSpeed, completedTasks |-> <<>>,
     totalMiningTime |-> 0, withdrawals |-> <<>>, boosts |-> <<>>,
     dailyMined |-> 0, lastResetDate |-> now \div TicksPerDay]

WithSessionStats(db) ==
    [db EXCEPT !.stats.activeSessions = Cardinality(DOMAIN db.sessions),
               !.stats.totalUsers = Cardinality(DOMAIN db.sessions)]

CreateSession(rd, wo) ==
    /\ up
    /\ nextId.session <= MaxSessions
    /\ LET ld == ReadDB(rd)
           sid == nextId.session
           ndb == WithSessionStats(
                     [ld.db EXCEPT !.sessions = Put(@, sid, NewSession(sid))])
       IN  /\ Save(ld, ndb, Aliased(ld, ndb), wo,
                   R("createSession", "ok", sid, NoId, DefaultSpeed, 0, rd, wo),
                   "PersistenceFailure")
           /\ nextId' = [nextId EXCEPT !.session = @ + 1]
    /\ UNCHANGED <<now, completedOk>>

---------------------------------------------------------------------------
(* cleanupOldSessions *)
\* A sweep whose cutoff is inclusive.
ExpiredInclusive(db) ==
    {s \in DOMAIN db.sessions : db.sessions[s].lastActive <= now - TicksPerDay}

\* lastActive is set by every code path that stores a session, so the
\* fallbacks of line 122 (startedAt, 0) are never taken.
Expired(db) ==
    {s \in DOMAIN db.sessions : db.sessions[s].lastActive < now - TicksPerDay}

\* A sweep that takes the removed sessions' withdrawals with them.
SweepCascade(db) ==
    WithSessionStats(
        [db EXCEPT
           !.sessions = Without(@, Expired(db)),
           !.withdrawals =
               Without(@, {w \in DOMAIN db.withdrawals :
                              db.withdrawals[w].sessionId \in Expired(db)})])

Sweep(db) ==
    WithSessionStats([db EXCEPT !.sessions = Without(@, Expired(db))])

CleanupBody(rd, wo) ==
    LET ld == ReadDB(rd)
        cleaned == Cardinality(Expired(ld.db))
        ndb == Sweep(ld.db)
        r == R("cleanup", "ok", NoId, NoId, cleaned, 0, rd, wo)
    IN  IF cleaned > 0
        THEN Save(ld, ndb, Aliased(ld, ndb), wo, r, "ok")
        ELSE /\ wo = "ok"
             /\ resp' = [r EXCEPT !.wr = "none"]
             /\ up' = TRUE
             /\ UNCHANGED <<file, tmp, DEFAULT_DB>>

\* setInterval(cleanupOldSessions, 60 * 60 * 1000)
Cleanup(rd, wo) ==
    /\ up
    /\ CleanupBody(rd, wo)
    /\ UNCHANGED <<now, nextId, completedOk>>

---------------------------------------------------------------------------
(* Process start: initDatabase(); cleanupOldSessions(); app.listen() *)
InitKinds == {"ok", "failAbsent", "failEmpty", "failTorn", "crashEmpty", "crashTorn"}

\* initDatabase on a missing file: writeFileSync straight onto DB_FILE (no
\* temporary file).  An exception is caught and logged, the process goes on;
\* open() has created the file unless it is open() that failed.
InitDatabaseCreate(io) ==
    /\ file' = CASE io = "ok" -> [st |-> "ok", db |-> DefaultSnapshot]
                 [] io = "failAbsent" -> file
                 [] io \in {"failEmpty", "crashEmpty"} -> [st |-> "empty", db |-> DefaultSnapshot]
                 [] OTHER -> [st |-> "torn", db |-> DefaultSnapshot]
    /\ up' = (io \notin {"crashEmpty", "crashTorn"})
    /\ resp' = [NoResp EXCEPT !.op = "start", !.wr = io]
    /\ UNCHANGED <<tmp, DEFAULT_DB>>

\* On an existing file initDatabase only adds missing keys: a file this
\* program wrote has them all, and readDB's result always has them all, so
\* it writes nothing.  cleanupOldSessions then runs on the file.
Startup(io, rd, wo) ==
    /\ ~up
    /\ IF file.st = "absent"
       THEN InitDatabaseCreate(io) /\ rd = "ok" /\ wo = "ok"
       ELSE CleanupBody(rd, wo) /\ io = "ok"
    /\ UNCHANGED <<now, nextId, completedOk>>

---------------------------------------------------------------------------
(* GET /api/session/:sessionId/state *)
\* A reset that forgets to record the date.
DailyResetNoDate(s) ==
    IF s.lastResetDate # now \div TicksPerDay
    THEN [s EXCEPT !.dailyMined = 0]
    ELSE s

DailyReset(s) ==
    IF s.lastResetDate # now \div TicksPerDay
    THEN [s EXCEPT !.dailyMined = 0, !.lastResetDate = now \div TicksPerDay]
    ELSE s

GetSessionState(sid, rd, wo) ==
    /\ up
    /\ LET ld == ReadDB(rd)
       IN  IF sid \notin DOMAIN ld.db.sessions
           THEN /\ wo = "ok"
                /\ Reject(R("getSessionState", "NotFound", sid, NoId, 0, 0, rd, "none"))
           ELSE LET s == [DailyReset(ld.db.sessions[sid]) EXCEPT !.lastActive = now]
                    ndb == [ld.db EXCEPT !.sessions[sid] = s]
                IN  Save(ld, ndb, Aliased(ld, ndb), wo,
                         R("getSessionState", "ok", sid, NoId,
                           OrElse(s.minedTokens, 0), OrElse(s.dailyMined, 0), rd, wo),
                         "ok")
    /\ UNCHANGED <<now, nextId, completedOk>>

---------------------------------------------------------------------------
(* POST /api/session/:sessionId/state *)
NoBody ==
    [minedTokens |-> Undef, miningSpeed |-> Undef, totalMiningTime |-> Undef,
     dailyMined |-> Undef, completedTasks |-> [t |-> "undefined", a |-> <<>>]]

\* An update that coerces every numeric field, absent or not.
ApplyStateClobber(s, body) ==
    [s EXCEPT
       !.minedTokens = NumberOr(body.minedTokens, 0),
       !.miningSpeed = NumberOr(body.miningSpeed, 0),
       !.completedTasks = IF body.completedTasks.t = "array"
                          THEN body.completedTasks.a ELSE @,
       !.totalMiningTime = NumberOr(body.totalMiningTime, 0),
       !.dailyMined = NumberOr(body.dailyMined, 0),
       !.lastActive = now]

ApplyState(s, body) ==
    [s EXCEPT
       !.minedTokens = IF body.minedTokens.t = "undefined" THEN @
                       ELSE NumberOr(body.minedTokens, 0),
       !.miningSpeed = IF body.miningSpeed.t = "undefined" THEN @
                       ELSE NumberOr(body.miningSpeed, @),
       !.completedTasks = IF body.completedTasks.t = "array"
                          THEN body.completedTasks.a ELSE @,
       !.totalMiningTime = IF body.totalMiningTime.t = "undefined" THEN @
                           ELSE NumberOr(body.totalMiningTime, @),
       !.dailyMined = IF body.dailyMined.t = "undefined" THEN @
                      ELSE NumberOr(body.dailyMined, OrElse(@, 0)),
       !.lastActive = now]

WithTotalMined(db) ==
    [db EXCEPT !.stats.totalMined = SumMined(db.sessions, DOMAIN db.sessions)]

SetSessionState(sid, body, rd, wo) ==
    /\ up
    /\ LET ld == ReadDB(rd)
       IN  IF sid \notin DOMAIN ld.db.sessions
           THEN /\ wo = "ok"
                /\ Reject(RA("setSessionState", "NotFound", sid, NoId, body, 0, 0, rd, "none"))
           ELSE LET s == ApplyState(ld.db.sessions[sid], body)
                    ndb == WithTotalMined([ld.db EXCEPT !.sessions[sid] = s])
                IN  Save(ld, ndb, Aliased(ld, ndb), wo,
                         RA("setSessionState", "ok", sid, NoId, body, s.dailyMined, 0, rd, wo),
                         "PersistenceFailure")
    /\ UNCHANGED <<now, nextId, completedOk>>

---------------------------------------------------------------------------
(* POST /api/boosts *)
NoTime == 0 - 1              \* a timestamp field that is not set

\* An amount drawn from one step too many.
BoostAmountWide(r) == BoostBase + r + 1

\* 10 + Math.floor(Math.random() * 15), r the floor
BoostAmount(r) == BoostBase + r

FindBoost(db, bid) ==
    IF \E i \in 1..Len(db.boosts) : db.boosts[i].id = bid
    THEN CHOOSE i \in 1..Len(db.boosts) :
            /\ db.boosts[i].id = bid
            /\ \A j \in 1..(i - 1) : db.boosts[j].id # bid
    ELSE 0

CreateBoost(sid, r, rd, wo) ==
    /\ up
    /\ LET ld == ReadDB(rd)
       IN  IF sid = NoId
           THEN /\ wo = "ok"
                /\ Reject(R("createBoost", "InvalidInput", sid, NoId, 0, 0, rd, "none"))
                /\ UNCHANGED nextId
           ELSE IF sid \notin DOMAIN ld.db.sessions
           THEN /\ wo = "ok"
                /\ Reject(R("createBoost", "NotFound", sid, NoId, 0, 0, rd, "none"))
                /\ UNCHANGED nextId
           ELSE LET bid == nextId.boost
                    boost == [id |-> bid, sessionId |-> sid,
                              boostAmount |-> BoostAmount(r), createdAt |-> now,
                              verified |-> FALSE, verifiedAt |-> NoTime]
                    ndb == [ld.db EXCEPT
                              !.boosts = Append(@, boost),
                              !.sessions[sid].boosts = Append(@, bid),
                              !.stats.totalBoostCount = Len(ld.db.boosts) + 1]
                IN  /\ nextId.boost <= MaxBoosts
                    /\ Save(ld, ndb, Aliased(ld, ndb), wo,
                            R("createBoost", "ok", sid, bid, BoostAmount(r), 0, rd, wo),
                            "PersistenceFailure")
                    /\ nextId' = [nextId EXCEPT !.boost = @ + 1]
    /\ UNCHANGED <<now, completedOk>>

---------------------------------------------------------------------------
(* POST /api/boosts/:boostId/verify *)
\* The speed is raised on every call; only the push of the task id
\* "boost-<id>" (modelled as the boost id) is guarded.
ApplyBoost(s, boost) ==
    [s EXCEPT
       !.miningSpeed = OrElse(@, DefaultSpeed) + OrElse(boost.boostAmount, 0),
       !.completedTasks = IF Includes(@, boost.id) THEN @ ELSE Append(@, boost.id),
       !.lastActive = now]

VerifyBoost(bid, sid, rd, wo) ==
    /\ up
    /\ LET ld == ReadDB(rd)
           i == FindBoost(ld.db, bid)
       IN  IF i = 0
           THEN /\ wo = "ok"
                /\ Reject(R("verifyBoost", "NotFound", sid, bid, 0, 0, rd, "none"))
                /\ UNCHANGED nextId
           ELSE IF sid # ld.db.boosts[i].sessionId
           THEN /\ wo = "ok"
                /\ Reject(R("verifyBoost", "Unauthorized", sid, bid, 0, 0, rd, "none"))
                /\ UNCHANGED nextId
           ELSE LET boost == ld.db.boosts[i]
                    known == sid \in DOMAIN ld.db.sessions
                    db1 == [ld.db EXCEPT !.boosts[i].verified = TRUE,
                                         !.boosts[i].verifiedAt = now]
                    ndb == IF known
                           THEN [db1 EXCEPT !.sessions[sid] = ApplyBoost(@, boost)]
                           ELSE db1
                IN  /\ nextId.verify <= MaxVerifies
                    /\ Save(ld, ndb, Aliased(ld, ndb), wo,
                            R("verifyBoost", "ok", sid, bid,
                              IF known THEN ndb.sessions[sid].miningSpeed ELSE 0,
                              boost.boostAmount, rd, wo),
                            "ok")
                    /\ nextId' = [nextId EXCEPT !.verify = @ + 1]
    /\ UNCHANGED <<now, completedOk>>

---------------------------------------------------------------------------
(* POST /api/withdrawals *)
\* The checks of lines 351-373 in the code's order; "ok" when all pass.
\* amount is a request value, wallet says whether walletAddress is truthy.
WithdrawalCheck(db, sid, wallet, amount) ==
    IF sid = NoId \/ ~wallet \/ amount.t = "undefined" THEN "InvalidInput"
    ELSE IF sid \notin DOMAIN db.sessions THEN "NotFound"
    ELSE IF amount.t = "NaN" THEN "InvalidInput"
    ELSE IF OrElse(db.sessions[sid].minedTokens, 0) < amount.n THEN "InsufficientBalance"
    ELSE IF amount.n < MinWithdrawal THEN "InvalidInput"
    ELSE "ok"

\* A debit that lists the amount where the withdrawal's id belongs.
DebitListsAmount(s, wid, a) ==
    [s EXCEPT !.minedTokens = OrElse(@, 0) - a,
              !.withdrawals = Append(@, a),
              !.lastActive = now]

\* A withdrawal that holds nothing until it is completed.
DebitNothing(s, wid, a) ==
    [s EXCEPT !.withdrawals = Append(@, wid),
              !.lastActive = now]

DebitTwice(s, wid, a) ==
    [s EXCEPT !.minedTokens = OrElse(@, 0) - a - a,
              !.withdrawals = Append(@, wid),
              !.lastActive = now]

Debit(s, wid, a) ==
    [s EXCEPT !.minedTokens = OrElse(@, 0) - a,
              !.withdrawals = Append(@, wid),
              !.lastActive = now]

CreateWithdrawal(sid, wallet, amount, rd, wo) ==
    /\ up
    /\ LET ld == ReadDB(rd)
           check == WithdrawalCheck(ld.db, sid, wallet, amount)
       IN  IF check # "ok"
           THEN /\ wo = "ok"
                /\ Reject(RA("createWithdrawal", check, sid, NoId,
                          [wallet |-> wallet, amount |-> amount], 0, 0, rd, "none"))
                /\ UNCHANGED nextId
           ELSE LET wid == nextId.withdrawal
                    w == [id |-> wid, sessionId |-> sid, walletAddress |-> "addr",
                          amount |-> amount.n, network |-> "bsc",
                          status |-> "pending", createdAt |-> now,
                          completedAt |-> NoTime, ogadsVerified |-> FALSE]
                    db1 == [ld.db EXCEPT
                              !.sessions[sid] = Debit(@, wid, amount.n),
                              !.withdrawals = Put(@, wid, w)]
                    ndb == [db1 EXCEPT
                              !.stats.totalWithdrawals = OrElse(@, 0) + amount.n,
                              !.stats.totalWithdrawalCount =
                                    Cardinality(DOMAIN db1.withdrawals)]
                IN  /\ nextId.withdrawal <= MaxWithdrawals
                    /\ Save(ld, ndb, Aliased(ld, ndb), wo,
                            RA("createWithdrawal", "ok", sid, wid,
                               [wallet |-> wallet, amount |-> amount],
                               ndb.sessions[sid].minedTokens, 0, rd, wo),
                            "ok")
                    /\ nextId' = [nextId EXCEPT !.withdrawal = @ + 1]
    /\ UNCHANGED <<now, completedOk>>

---------------------------------------------------------------------------
(* POST /api/withdrawals/:withdrawalId/complete *)
\* A completion that wants the owning session to be stored still.
CompleteCheckNeedsSession(db, wid, sid) ==
    IF wid \notin DOMAIN db.withdrawals THEN "NotFound"
    ELSE IF db.withdrawals[wid].sessionId # sid THEN "Unauthorized"
    ELSE IF db.withdrawals[wid].status = "completed" THEN "AlreadyCompleted"
    ELSE IF sid \notin DOMAIN db.sessions THEN "NotFound"
    ELSE "ok"

\* A completion that forgets whose withdrawal it is.
CompleteCheckNoOwner(db, wid, sid) ==
    IF wid \notin DOMAIN db.withdrawals THEN "NotFound"
    ELSE IF db.withdrawals[wid].status = "completed" THEN "AlreadyCompleted"
    ELSE "ok"

\* A completion that forgets the status check.
CompleteCheckNoStatus(db, wid, sid) ==
    IF wid \notin DOMAIN db.withdrawals THEN "NotFound"
    ELSE IF db.withdrawals[wid].sessionId # sid THEN "Unauthorized"
    ELSE "ok"

CompleteCheck(db, wid, sid) ==
    IF wid \notin DOMAIN db.withdrawals THEN "NotFound"
    ELSE IF db.withdrawals[wid].sessionId # sid THEN "Unauthorized"
    ELSE IF db.withdrawals[wid].status = "completed" THEN "AlreadyCompleted"
    ELSE "ok"

\* A completion that gives the amount back to the session.
CompleteWithdrawalRefunds(wid, sid, rd, wo) ==
    /\ up
    /\ LET ld == ReadDB(rd)
           check == CompleteCheck(ld.db, wid, sid)
       IN  IF check # "ok"
           THEN /\ wo = "ok"
                /\ Reject(R("completeWithdrawal", check, sid, wid, 0, 0, rd, "none"))
                /\ UNCHANGED completedOk
           ELSE LET db1 == [ld.db EXCEPT
                              !.withdrawals[wid].status = "completed",
                              !.withdrawals[wid].completedAt = now,
                              !.withdrawals[wid].ogadsVerified = TRUE]
                    ndb == IF sid \in DOMAIN db1.sessions
                           THEN [db1 EXCEPT
                                   !.sessions[sid].lastActive = now,
                                   !.sessions[sid].minedTokens =
                                        @ + db1.withdrawals[wid].amount]
                           ELSE db1
                IN  /\ Save(ld, ndb, Aliased(ld, ndb), wo,
                            R("completeWithdrawal", "ok", sid, wid,
                              ndb.withdrawals[wid].amount, now, rd, wo),
                            "ok")
                    /\ completedOk' = IF Crashes(wo) THEN completedOk
                                      ELSE completedOk \cup {wid}
    /\ UNCHANGED <<now, nextId>>

CompleteWithdrawal(wid, sid, rd, wo) ==
    /\ up
    /\ LET ld == ReadDB(rd)
           check == CompleteCheck(ld.db, wid, sid)
       IN  IF check # "ok"
           THEN /\ wo = "ok"
                /\ Reject(R("completeWithdrawal", check, sid, wid, 0, 0, rd, "none"))
                /\ UNCHANGED completedOk
           ELSE LET db1 == [ld.db EXCEPT
                              !.withdrawals[wid].status = "completed",
                              !.withdrawals[wid].completedAt = now,
                              !.withdrawals[wid].ogadsVerified = TRUE]
                    ndb == IF sid \in DOMAIN db1.sessions
                           THEN [db1 EXCEPT !.sessions[sid].lastActive = now]
                           ELSE db1
                IN  /\ Save(ld, ndb, Aliased(ld, ndb), wo,
                            R("completeWithdrawal", "ok", sid, wid,
                              ndb.withdrawals[wid].amount, now, rd, wo),
                            "ok")
                    /\ completedOk' = IF Crashes(wo) THEN completedOk
                                      ELSE completedOk \cup {wid}
    /\ UNCHANGED <<now, nextId>>

---------------------------------------------------------------------------
(* POST /api/activity *)
\* A cap that keeps the oldest records.
FirstN(seq, n) ==
    IF Len(seq) > n THEN SubSeq(seq, 1, n) ELSE seq

LastN(seq, n) ==
    IF Len(seq) > n THEN SubSeq(seq, Len(seq) - n + 1, Len(seq)) ELSE seq

LogActivity(sid, rd, wo) ==
    /\ up
    /\ nextId.activity <= MaxActivities
    /\ LET ld == ReadDB(rd)
           a == [id |-> nextId.activity, sessionId |-> sid, timestamp |-> now]
           pushed == [ld.db EXCEPT !.activities = Append(@, a)]
           ndb == [pushed EXCEPT !.activities = LastN(@, ActivityCap)]
       IN  /\ Save(ld, ndb, Aliased(ld, pushed), wo,
                   R("activity", "ok", sid, nextId.activity, 0, 0, rd, wo), "ok")
           /\ nextId' = [nextId EXCEPT !.activity = @ + 1]
    /\ UNCHANGED <<now, completedOk>>

\* The same handler over enough requests for the list to overflow.
LogActivityLong(sid, rd, wo) ==
    /\ up
    /\ nextId.activity <= MaxLogged
    /\ LET ld == ReadDB(rd)
           a == [id |-> nextId.activity, sessionId |-> sid, timestamp |-> now]
           pushed == [ld.db EXCEPT !.activities = Append(@, a)]
           ndb == [pushed EXCEPT !.activities = LastN(@, ActivityCap)]
       IN  /\ Save(ld, ndb, Aliased(ld, pushed), wo,
                   R("activity", "ok", sid, nextId.activity, 0, 0, rd, wo), "ok")
           /\ nextId' = [nextId EXCEPT !.activity = @ + 1]
    /\ UNCHANGED <<now, completedOk>>

---------------------------------------------------------------------------
(* The clock *)
Tick ==
    /\ now < MaxTime
    /\ now' = now + 1
    /\ resp' = [NoResp EXCEPT !.op = "tick"]
    /\ UNCHANGED <<file, tmp, DEFAULT_DB, up, nextId, completedOk>>

\* The same clock over a horizon long enough for a date to change and for a
\* session to expire.
TickLong ==
    /\ now < LongTime
    /\ now' = now + 1
    /\ resp' = [NoResp EXCEPT !.op = "tick"]
    /\ UNCHANGED <<file, tmp, DEFAULT_DB, up, nextId, completedOk>>

\* The clock seen by requests that come more than 24 hours apart.
TickDay ==
    /\ now + TicksPerDay + 1 <= LongTime
    /\ now' = now + TicksPerDay + 1
    /\ resp' = [NoResp EXCEPT !.op = "tick"]
    /\ UNCHANGED <<file, tmp, DEFAULT_DB, up, nextId, completedOk>>

---------------------------------------------------------------------------
Init ==
    /\ file = [st |-> "absent", db |-> DefaultSnapshot]
    /\ tmp = "absent"
    /\ DEFAULT_DB = DefaultSnapshot
    /\ up = FALSE
    /\ now = 0
    /\ nextId = [session |-> 1, boost |-> 1, withdrawal |-> 1, activity |-> 1,
                 verify |-> 1]
    /\ resp = NoResp
    /\ completedOk = {}

---------------------------------------------------------------------------
(* Specifications.  Requests draw their inputs from small sets; RD, WO and *)
(* IO are the outcomes readFileSync, writeDB and initDatabase's write may  *)
(* have.                                                                   *)
MinedInputs == {NaNv, Num(0 - 10), Num(0), Num(20)}
Bodies == {[NoBody EXCEPT !.minedTokens = v] : v \in MinedInputs}
Amounts == {Undef, NaNv, Num(1), Num(10), Num(20)}
Rolls == {0, BoostSpan - 1}
\* The ids a request may carry: every session that can exist and one that
\* never does.
SessionIds == 1..(MaxSessions + 1)

\* Healthy disk, no crash, the clock standing still: sessions and
\* withdrawals.
Next ==
    \/ Startup("ok", "ok", "ok")
    \/ CreateSession("ok", "ok")
    \/ \E sid \in SessionIds : GetSessionState(sid, "ok", "ok")
    \/ \E sid \in SessionIds, body \in Bodies : SetSessionState(sid, body, "ok", "ok")
    \/ \E sid \in SessionIds \cup {NoId}, wallet \in BOOLEAN, amount \in Amounts :
          CreateWithdrawal(sid, wallet, amount, "ok", "ok")
    \/ \E wid \in 1..MaxWithdrawals, sid \in SessionIds :
          CompleteWithdrawal(wid, sid, "ok", "ok")

Spec == Init /\ [][Next]_vars

\* The same for sessions, boosts and activities.
BoostBodies ==
    {[NoBody EXCEPT !.miningSpeed = v] : v \in {Num(0), Num(30)}}
      \cup {[NoBody EXCEPT !.completedTasks = [t |-> "array", a |-> <<>>]]}

NextBoost ==
    \/ Startup("ok", "ok", "ok")
    \/ CreateSession("ok", "ok")
    \/ \E sid \in SessionIds : GetSessionState(sid, "ok", "ok")
    \/ \E sid \in SessionIds, body \in BoostBodies :
          SetSessionState(sid, body, "ok", "ok")
    \/ \E sid \in SessionIds \cup {NoId}, r \in Rolls : CreateBoost(sid, r, "ok", "ok")
    \/ \E bid \in 1..MaxBoosts, sid \in SessionIds : VerifyBoost(bid, sid, "ok", "ok")
    \/ \E sid \in SessionIds : LogActivity(sid, "ok", "ok")

SpecBoost == Init /\ [][NextBoost]_vars

\* Boost creation for stored, unknown and missing session ids, on sessions
\* whose speed was set or raised by an earlier boost.
NextGrant ==
    \/ Startup("ok", "ok", "ok")
    \/ CreateSession("ok", "ok")
    \/ \E sid \in SessionIds, body \in BoostBodies :
          SetSessionState(sid, body, "ok", "ok")
    \/ \E sid \in SessionIds \cup {NoId}, r \in Rolls : CreateBoost(sid, r, "ok", "ok")
    \/ \E bid \in 1..MaxBoosts, sid \in SessionIds : VerifyBoost(bid, sid, "ok", "ok")

SpecGrant == Init /\ [][NextGrant]_vars

\* Fewer inputs, with the clock and the hourly cleanup.
ClockBodies == {[NoBody EXCEPT !.minedTokens = Num(20)]}
ClockAmounts == {Num(1), Num(10)}

NextClock ==
    \/ Startup("ok", "ok", "ok")
    \/ CreateSession("ok", "ok")
    \/ \E sid \in SessionIds : GetSessionState(sid, "ok", "ok")
    \/ \E sid \in SessionIds, body \in ClockBodies :
          SetSessionState(sid, body, "ok", "ok")
    \/ \E sid \in SessionIds, amount \in ClockAmounts :
          CreateWithdrawal(sid, TRUE, amount, "ok", "ok")
    \/ \E wid \in 1..MaxWithdrawals, sid \in SessionIds :
          CompleteWithdrawal(wid, sid, "ok", "ok")
    \/ Cleanup("ok", "ok")
    \/ Tick

SpecClock == Init /\ [][NextClock]_vars

\* Fewer inputs, on a disk that may fail: readFileSync
\* may throw, writeDB may fail or the process die in it, and the first
\* start may leave no file, an empty one or a torn one.
NextFaults ==
    \/ \E io \in InitKinds, rd \in ReadKinds, wo \in WriteKinds : Startup(io, rd, wo)
    \/ \E rd \in ReadKinds, wo \in WriteKinds : CreateSession(rd, wo)
    \/ \E sid \in SessionIds, rd \in ReadKinds, wo \in WriteKinds :
          GetSessionState(sid, rd, wo)
    \/ \E sid \in SessionIds, body \in ClockBodies, rd \in ReadKinds, wo \in WriteKinds :
          SetSessionState(sid, body, rd, wo)
    \/ \E sid \in SessionIds, amount \in ClockAmounts, rd \in ReadKinds, wo \in WriteKinds :
          CreateWithdrawal(sid, TRUE, amount, rd, wo)
    \/ \E wid \in 1..MaxWithdrawals, sid \in SessionIds, rd \in ReadKinds, wo \in WriteKinds :
          CompleteWithdrawal(wid, sid, rd, wo)

SpecFaults == Init /\ [][NextFaults]_vars

\* The operations that save sessions and withdrawals, on the same disk.
NextCrash ==
    \/ \E io \in InitKinds, rd \in ReadKinds, wo \in WriteKinds : Startup(io, rd, wo)
    \/ \E rd \in ReadKinds, wo \in WriteKinds : CreateSession(rd, wo)
    \/ \E sid \in SessionIds, body \in ClockBodies, rd \in ReadKinds, wo \in WriteKinds :
          SetSessionState(sid, body, rd, wo)
    \/ \E sid \in SessionIds, amount \in ClockAmounts, rd \in ReadKinds, wo \in WriteKinds :
          CreateWithdrawal(sid, TRUE, amount, rd, wo)

SpecCrash == Init /\ [][NextCrash]_vars

\* Sessions over days: the daily reset and the retention sweep.
DailyBodies == {[NoBody EXCEPT !.dailyMined = Num(5)]}

NextLong ==
    \/ Startup("ok", "ok", "ok")
    \/ CreateSession("ok", "ok")
    \/ \E sid \in SessionIds : GetSessionState(sid, "ok", "ok")
    \/ \E sid \in SessionIds, body \in DailyBodies :
          SetSessionState(sid, body, "ok", "ok")
    \/ Cleanup("ok", "ok")
    \/ TickLong

SpecLong == Init /\ [][NextLong]_vars

\* Withdrawals on a file that was created whole, with sweeps over a long
\* horizon and with loads that fail in the sweep and in the activity log.
NextLoss ==
    \/ Startup("ok", "ok", "ok")
    \/ CreateSession("ok", "ok")
    \/ \E sid \in SessionIds, body \in ClockBodies :
          SetSessionState(sid, body, "ok", "ok")
    \/ \E sid \in SessionIds, amount \in ClockAmounts :
          CreateWithdrawal(sid, TRUE, amount, "ok", "ok")
    \/ \E rd \in ReadKinds : Cleanup(rd, "ok")
    \/ \E sid \in SessionIds, rd \in ReadKinds : LogActivity(sid, rd, "ok")
    \/ TickLong

SpecLoss == Init /\ [][NextLoss]_vars

\* Activity logging alone, one request after the other.
NextLog ==
    \/ Startup("ok", "ok", "ok")
    \/ LogActivityLong(1, "ok", "ok")

SpecLog == Init /\ [][NextLog]_vars

\* State updates that carry one field each, a number or something that is
\* not one, and the update that carries none.
StateValues == {NaNv, Num(5)}
StateBodies ==
    {NoBody}
      \cup {[NoBody EXCEPT !.minedTokens = v] : v \in StateValues}
      \cup {[NoBody EXCEPT !.miningSpeed = v] : v \in StateValues}
      \cup {[NoBody EXCEPT !.totalMiningTime = v] : v \in StateValues}
      \cup {[NoBody EXCEPT !.dailyMined = v] : v \in StateValues}
      \cup {[NoBody EXCEPT !.completedTasks = [t |-> "array", a |-> <<1>>]]}

NextState ==
    \/ Startup("ok", "ok", "ok")
    \/ CreateSession("ok", "ok")
    \/ \E sid \in SessionIds, body \in StateBodies :
          SetSessionState(sid, body, "ok", "ok")

SpecState == Init /\ [][NextState]_vars

\* State updates that carry one numeric field each, zero or not.
ZeroValues == {Num(0), Num(5)}
ZeroBodies ==
    {[NoBody EXCEPT !.minedTokens = v] : v \in ZeroValues}
      \cup {[NoBody EXCEPT !.miningSpeed = v] : v \in ZeroValues}
      \cup {[NoBody EXCEPT !.totalMiningTime = v] : v \in ZeroValues}
      \cup {[NoBody EXCEPT !.dailyMined = v] : v \in ZeroValues}

NextZero ==
    \/ Startup("ok", "ok", "ok")
    \/ CreateSession("ok", "ok")
    \/ \E sid \in SessionIds, body \in ZeroBodies :
          SetSessionState(sid, body, "ok", "ok")

SpecZero == Init /\ [][NextZero]_vars

\* Boosts and withdrawals together, addressed with the owner's id, another
\* id or none.
OwnerAmounts == {Num(10)}
OwnerRolls == {0}

NextOwner ==
    \/ Startup("ok", "ok", "ok")
    \/ CreateSession("ok", "ok")
    \/ \E sid \in SessionIds, body \in ClockBodies :
          SetSessionState(sid, body, "ok", "ok")
    \/ \E sid \in SessionIds, r \in OwnerRolls : CreateBoost(sid, r, "ok", "ok")
    \/ \E bid \in 1..MaxBoosts, sid \in SessionIds \cup {NoId} :
          VerifyBoost(bid, sid, "ok", "ok")
    \/ \E sid \in SessionIds, amount \in OwnerAmounts :
          CreateWithdrawal(sid, TRUE, amount, "ok", "ok")
    \/ \E wid \in 1..MaxWithdrawals, sid \in SessionIds \cup {NoId} :
          CompleteWithdrawal(wid, sid, "ok", "ok")

SpecOwner == Init /\ [][NextOwner]_vars

\* The sweep over sessions that own boosts, withdrawals and activities.
NextSweep ==
    \/ Startup("ok", "ok", "ok")
    \/ CreateSession("ok", "ok")
    \/ \E sid \in SessionIds, body \in ClockBodies :
          SetSessionState(sid, body, "ok", "ok")
    \/ \E sid \in SessionIds, r \in OwnerRolls : CreateBoost(sid, r, "ok", "ok")
    \/ \E sid \in SessionIds, amount \in OwnerAmounts :
          CreateWithdrawal(sid, TRUE, amount, "ok", "ok")
    \/ LogActivity(1, "ok", "ok")
    \/ Cleanup("ok", "ok")
    \/ TickDay

SpecSweep == Init /\ [][NextSweep]_vars

\* Boosts and withdrawals of a session that expires and is swept, requested
\* with the ids the server has handed out.  The first session is the one
\* that mines, takes boosts and withdraws; the others stand by.
IssuedIds == 1..MaxSessions
FirstId == 1

NextLedger ==
    \/ Startup("ok", "ok", "ok")
    \/ CreateSession("ok", "ok")
    \/ \E body \in ClockBodies : SetSessionState(FirstId, body, "ok", "ok")
    \/ \E r \in OwnerRolls : CreateBoost(FirstId, r, "ok", "ok")
    \/ \E bid \in 1..MaxBoosts, sid \in IssuedIds : VerifyBoost(bid, sid, "ok", "ok")
    \/ \E amount \in OwnerAmounts : CreateWithdrawal(FirstId, TRUE, amount, "ok", "ok")
    \/ \E wid \in 1..MaxWithdrawals, sid \in IssuedIds :
          CompleteWithdrawal(wid, sid, "ok", "ok")
    \/ Cleanup("ok", "ok")
    \/ TickDay

SpecLedger == Init /\ [][NextLedger]_vars

\* Sessions that expire and are swept, on a server whose first write of
\* database.json may have left it empty and whose loads may fail.  Every
\* session id handed out is stored by the request that creates it, so an id
\* handed out and not stored is an id a sweep removed.
ReturnInits == {"ok", "failEmpty"}

NextReturn ==
    \/ \E io \in ReturnInits : Startup(io, "ok", "ok")
    \/ CreateSession("ok", "ok")
    \/ \E sid \in IssuedIds, rd \in ReadKinds : GetSessionState(sid, rd, "ok")
    \/ \E sid \in IssuedIds, body \in ClockBodies, rd \in ReadKinds :
          SetSessionState(sid, body, rd, "ok")
    \/ \E sid \in IssuedIds, r \in OwnerRolls, rd \in ReadKinds :
          CreateBoost(sid, r, rd, "ok")
    \/ \E sid \in IssuedIds, amount \in OwnerAmounts, rd \in ReadKinds :
          CreateWithdrawal(sid, TRUE, amount, rd, "ok")
    \/ Cleanup("ok", "ok")
    \/ TickDay

SpecReturn == Init /\ [][NextReturn]_vars

\* The requests of the end-to-end walk, in any order: minedTokens = 10,
\* amount = 5 and amount = 0.0001, in units of 0.0001.
WalkBodies == {[NoBody EXCEPT !.minedTokens = Num(100000)]}
WalkAmounts == {Num(50000), Num(1)}

NextWalk ==
    \/ Startup("ok", "ok", "ok")
    \/ CreateSession("ok", "ok")
    \/ \E sid \in SessionIds : GetSessionState(sid, "ok", "ok")
    \/ \E sid \in SessionIds, body \in WalkBodies :
          SetSessionState(sid, body, "ok", "ok")
    \/ \E sid \in SessionIds \cup {NoId}, wallet \in BOOLEAN, amount \in WalkAmounts :
          CreateWithdrawal(sid, wallet, amount, "ok", "ok")
    \/ \E wid \in 1..MaxWithdrawals, sid \in SessionIds :
          CompleteWithdrawal(wid, sid, "ok", "ok")

SpecWalk == Init /\ [][NextWalk]_vars

---------------------------------------------------------------------------
(* readDB on a file this program did not write.  A raw JSON value is tagged *)
(* with what it is: null (falsy), a number (truthy, neither object nor     *)
(* array), an object or an array; a parsed file is a function from the     *)
(* top-level keys it has to raw values.                                    *)
JNull == [t |-> "null", v |-> <<>>]
JNumber == [t |-> "number", v |-> <<>>]
Obj(f) == [t |-> "object", v |-> f]
Arr(q) == [t |-> "array", v |-> q]
Absent == [t |-> "absent", v |-> <<>>]

TopKeys == {"users", "sessions", "withdrawals", "activities", "boosts", "stats"}
StatKeys == DOMAIN DefaultStats

\* The snapshot of the model as the raw value JSON.parse gives for it
RawOf(db) ==
    [users |-> Obj(db.users), sessions |-> Obj(db.sessions),
     withdrawals |-> Obj(db.withdrawals), activities |-> Arr(db.activities),
     boosts |-> Arr(db.boosts), stats |-> Obj(db.stats)]

\* Object.assign({}, a, b): b's keys over a's
Assign(a, b) ==
    [k \in DOMAIN a \cup DOMAIN b |-> IF k \in DOMAIN b THEN b[k] ELSE a[k]]

\* x || {} and Array.isArray(x) ? x : []
OrObject(x) == IF x.t = "null" THEN Obj(<<>>) ELSE x
OrArray(x) == IF x.t = "array" THEN x ELSE Arr(<<>>)

\* Object.assign({}, DEFAULT_DB.stats, stats || {}): a number has no own
\* properties to copy
MergeStats(dflt, x) ==
    Obj(Assign(dflt.stats.v, IF x.t = "object" THEN x.v ELSE <<>>))

\* A merge with the arguments swapped: the defaults win.
ReshapeDefaultsLast(parsed) ==
    LET dflt == RawOf(DEFAULT_DB)
        merged == Assign(parsed, dflt)
    IN  [k \in DOMAIN merged |->
           CASE k \in {"users", "sessions", "withdrawals"} -> OrObject(merged[k])
             [] k \in {"activities", "boosts"} -> OrArray(merged[k])
             [] k = "stats" -> MergeStats(dflt, merged[k])
             [] OTHER -> merged[k]]

\* readDB, lines 77-87, on the parsed file
Reshape(parsed) ==
    LET dflt == RawOf(DEFAULT_DB)
        merged == Assign(dflt, parsed)
    IN  [k \in DOMAIN merged |->
           CASE k \in {"users", "sessions", "withdrawals"} -> OrObject(merged[k])
             [] k \in {"activities", "boosts"} -> OrArray(merged[k])
             [] k = "stats" -> MergeStats(dflt, merged[k])
             [] OTHER -> merged[k]]

\* A raw snapshot with every top-level key and every stats key, each of its
\* kind
CompleteRaw(x) ==
    /\ TopKeys \subseteq DOMAIN x
    /\ \A k \in {"users", "sessions", "withdrawals", "stats"} : x[k].t = "object"
    /\ \A k \in {"activities", "boosts"} : x[k].t = "array"
    /\ StatKeys \subseteq DOMAIN x.stats.v

Strip(r) == [k \in {j \in DOMAIN r : r[j] # Absent} |-> r[k]]

RawStats ==
    {Absent, JNull, JNumber} \cup {Obj([k \in ks |-> 7]) : ks \in SUBSET StatKeys}

RawSnapshots ==
    {Strip([users |-> u, sessions |-> se, withdrawals |-> w, activities |-> a,
            boosts |-> b, stats |-> st, version |-> ve]) :
        u \in {Absent, JNull, Obj(<<>>)},
        se \in {Absent, JNull, Obj(Put(<<>>, 1, NewSession(1)))},
        w \in {Absent, Obj(<<>>)},
        a \in {Absent, JNumber, Arr(<<[id |-> 1, sessionId |-> 1, timestamp |-> 0]>>)},
        b \in {Absent, Arr(<<>>)},
        st \in RawStats,
        ve \in {Absent, JNumber}}

\* database.json as an earlier revision or an editor left it
InitRaw ==
    /\ now = 0
    /\ file \in {[st |-> "ok", db |-> x] : x \in RawSnapshots}
    /\ tmp = "absent"
    /\ DEFAULT_DB = DefaultSnapshot
    /\ up = FALSE
    /\ nextId = [session |-> 1, boost |-> 1, withdrawal |-> 1, activity |-> 1,
                 verify |-> 1]
    /\ resp = NoResp
    /\ completedOk = {}

\* initDatabase on an existing file (lines 43-67): readDB, add the keys that
\* are undefined, writeDB when one was added.
InitDatabaseMerge ==
    /\ ~up
    /\ LET db == Reshape(file.db)
           dflt == RawOf(DEFAULT_DB)
           withKeys == Assign(dflt, db)
           merged == [withKeys EXCEPT !.stats = Obj(Assign(dflt.stats.v, db.stats.v))]
           changed == merged # db
       IN  /\ file' = IF changed THEN [st |-> "ok", db |-> merged] ELSE file
           /\ resp' = [NoResp EXCEPT !.op = "start", !.arg = db,
                                     !.wr = IF changed THEN "ok" ELSE "none"]
    /\ up' = TRUE
    /\ UNCHANGED <<tmp, DEFAULT_DB, now, nextId, completedOk>>

\* A handler's readDB (lines 71-87) on that file
ReadRaw ==
    /\ up
    /\ resp' = [NoResp EXCEPT !.op = "readDB", !.arg = Reshape(file.db), !.rd = "ok"]
    /\ UNCHANGED <<file, tmp, DEFAULT_DB, up, now, nextId, completedOk>>

\* cleanupOldSessions or a handler saving the snapshot it loaded
\* (writeDB(db), line 134)
WriteRaw ==
    /\ resp.op = "readDB"
    /\ file' = [st |-> "ok", db |-> resp.arg]
    /\ resp' = [NoResp EXCEPT !.op = "writeDB", !.wr = "ok"]
    /\ UNCHANGED <<tmp, DEFAULT_DB, up, now, nextId, completedOk>>

NextRaw ==
    \/ InitDatabaseMerge
    \/ ReadRaw
    \/ WriteRaw

SpecRaw == InitRaw /\ [][NextRaw]_vars

---------------------------------------------------------------------------
(* Claims.  A step is recognised by the response it leaves: resp'.op names *)
(* the operation, the unprimed variables are the state it started from.    *)
Sessions == file.db.sessions
Withdrawals == file.db.withdrawals
FailKinds == {"failTmp", "failRename"}

\* C1: with readFileSync and writeDB succeeding, for an existing session
\* with balance b and an amount a with
\* 0.001 <= a <= b (wallet given), createWithdrawal answers success, stores
\* a pending withdrawal of a for that session, lowers the stored minedTokens
\* by exactly a and reports newBalance = b - a; a getSessionState of that
\* session right after it reports minedTokens = b - a.
C1_CreateWithdrawalDebits ==
    [][/\ ( /\ resp'.op = "createWithdrawal"
            /\ resp'.sid \in DOMAIN Sessions
            /\ resp'.arg.wallet
            /\ resp'.arg.amount.t = "number"
            /\ MinWithdrawal <= resp'.arg.amount.n
            /\ resp'.arg.amount.n <= Sessions[resp'.sid].minedTokens )
          => /\ resp'.code = "ok"
             /\ resp'.val = Sessions[resp'.sid].minedTokens - resp'.arg.amount.n
             /\ Sessions'[resp'.sid].minedTokens = resp'.val
             /\ resp'.ref \notin DOMAIN Withdrawals
             /\ resp'.ref \in DOMAIN Withdrawals'
             /\ Withdrawals'[resp'.ref].status = "pending"
             /\ Withdrawals'[resp'.ref].amount = resp'.arg.amount.n
             /\ Withdrawals'[resp'.ref].sessionId = resp'.sid
       /\ ( /\ resp.op = "createWithdrawal"
            /\ resp.code = "ok"
            /\ resp'.op = "getSessionState"
            /\ resp'.sid = resp.sid )
          => /\ resp'.code = "ok"
             /\ resp'.val = resp.val
             /\ Withdrawals'[resp.ref].status = "pending"
      ]_vars

C1_Witness ==
    /\ resp.op = "createWithdrawal"
    /\ resp.code = "ok"
    /\ resp.arg.amount.n = 10
    /\ resp.val = 10
    /\ Withdrawals[resp.ref].status = "pending"

\* C2: a verifyBoost that succeeds for a boost whose marker is already in the
\* owning session's completedTasks leaves that session's miningSpeed as it
\* was (the boost's amount is added once in total).
C2_BoostAppliedOnce ==
    [][( /\ resp'.op = "verifyBoost"
         /\ resp'.code = "ok"
         /\ resp'.sid \in DOMAIN Sessions
         /\ Includes(Sessions[resp'.sid].completedTasks, resp'.ref) )
       => Sessions'[resp'.sid].miningSpeed = Sessions[resp'.sid].miningSpeed
      ]_vars

\* C3 as stated: completeWithdrawal on a withdrawal that is already completed
\* answers AlreadyCompleted whatever the sessionId, and changes nothing.
C3_AlwaysAlreadyCompleted ==
    [][( /\ resp'.op = "completeWithdrawal"
         /\ resp'.ref \in DOMAIN Withdrawals
         /\ Withdrawals[resp'.ref].status = "completed" )
       => /\ resp'.code = "AlreadyCompleted"
          /\ file' = file
      ]_vars

\* C3 as amended: completeWithdrawal on a withdrawal that is already
\* completed answers AlreadyCompleted when called with the owner's sessionId
\* and Unauthorized with any other; either way the file (completedAt and
\* every other timestamp in it) is unchanged.
C3_CompletedIsRejected ==
    [][( /\ resp'.op = "completeWithdrawal"
         /\ resp'.ref \in DOMAIN Withdrawals
         /\ Withdrawals[resp'.ref].status = "completed" )
       => /\ resp'.code = IF resp'.sid = Withdrawals[resp'.ref].sessionId
                          THEN "AlreadyCompleted" ELSE "Unauthorized"
          /\ file' = file
      ]_vars

C3_Witness ==
    /\ resp.op = "completeWithdrawal"
    /\ resp.code = "AlreadyCompleted"
    /\ Withdrawals[resp.ref].completedAt < now

\* C4: a withdrawal that is completed in the file is never pending in it
\* again, and at most one completeWithdrawal per withdrawal id answers
\* success.
C4_CompletesOnce ==
    [][/\ \A w \in DOMAIN Withdrawals :
            (Withdrawals[w].status = "completed" /\ w \in DOMAIN Withdrawals')
               => Withdrawals'[w].status = "completed"
       /\ (resp'.op = "completeWithdrawal" /\ resp'.code = "ok")
            => resp'.ref \notin completedOk
      ]_vars

\* C5: every session in the file has minedTokens >= 0.
C5_BalanceNonNegative ==
    \A s \in DOMAIN Sessions : Sessions[s].minedTokens >= 0

\* C7: an operation whose writeDB returned false answers PersistenceFailure,
\* and the file the next load reads is the one from before the operation.
C7_SaveFailureFailsTheOperation ==
    [][resp'.wr \in FailKinds
         => /\ resp'.code = "PersistenceFailure"
            /\ file' = file
      ]_vars

\* C8: whatever a save does (returns true, fails in either step, or the
\* process dies in either step), parsing the live file afterwards yields the
\* snapshot it yielded before, or the file is a complete snapshot installed
\* by a save that returned true.
Parsed(f) == IF f.st = "ok" THEN f.db ELSE DefaultSnapshot

C8_NoPartialSnapshot ==
    [][\/ Parsed(file') = Parsed(file)
       \/ /\ file'.st = "ok"
          /\ resp'.wr = "ok"
          /\ tmp' = "absent"
      ]_vars

C8_Witness ==
    /\ resp.op = "crash"
    /\ resp.wr = "crashRename"
    /\ tmp = "ok"
    /\ file.st = "ok"
    /\ DOMAIN Withdrawals # {}

\* C9: a load that fails returns the default empty snapshot.
C9_FailedLoadIsEmpty ==
    ReadDB("err").db = DefaultSnapshot

\* C10: in the file, stats.totalMined is the sum of minedTokens over the
\* sessions of the file.
C10_TotalMinedIsSum ==
    file.db.stats.totalMined = SumMined(Sessions, DOMAIN Sessions)

\* C11: with readFileSync and writeDB succeeding, a getSessionState of a
\* session whose lastResetDate is not today answers dailyMined = 0 and stores
\* dailyMined = 0 and lastResetDate = today; a getSessionState of a session
\* whose lastResetDate is today answers the stored dailyMined and leaves it
\* and the date as they are; and the stored dailyMined of a session changes
\* only in such a reset or in a setSessionState of that session.
Today == now \div TicksPerDay

C11_DailyResetOncePerDate ==
    [][/\ ( /\ resp'.op = "getSessionState"
            /\ resp'.sid \in DOMAIN Sessions )
          => /\ resp'.code = "ok"
             /\ Sessions'[resp'.sid].lastResetDate = Today
             /\ resp'.val2 = Sessions'[resp'.sid].dailyMined
             /\ resp'.val2 = IF Sessions[resp'.sid].lastResetDate # Today
                             THEN 0 ELSE Sessions[resp'.sid].dailyMined
       /\ \A s \in DOMAIN Sessions \cap DOMAIN Sessions' :
             Sessions'[s].dailyMined # Sessions[s].dailyMined
               => /\ resp'.sid = s
                  /\ \/ resp'.op = "setSessionState"
                     \/ /\ resp'.op = "getSessionState"
                        /\ Sessions[s].lastResetDate # Today
      ]_vars

\* A session started on day 0 was reset on day 1, then stored 5, and the
\* getSessionState of the same day answers 5.
C11_Witness ==
    /\ resp.op = "getSessionState"
    /\ resp.code = "ok"
    /\ resp.val2 = 5
    /\ resp.sid \in DOMAIN Sessions
    /\ Sessions[resp.sid].startedAt \div TicksPerDay = 0
    /\ Sessions[resp.sid].lastResetDate = 1

C13_ReshapeIdempotent ==
    LET y == Reshape(file.db)
    IN  /\ Reshape(y) = y
        /\ CompleteRaw(y)
        /\ CompleteRaw(file.db) => y = file.db
        /\ resp.op = "readDB" => resp.arg = y

\* A file without sessions, with a number for activities and with some of
\* the stats keys has been read.
C13_Witness ==
    /\ resp.op = "readDB"
    /\ "sessions" \notin DOMAIN file.db
    /\ "activities" \in DOMAIN file.db
    /\ file.db.activities.t = "number"
    /\ "stats" \in DOMAIN file.db
    /\ file.db.stats.t = "object"
    /\ DOMAIN file.db.stats.v = {"totalMined"}
    /\ resp.arg.stats.v.totalMined = 7
    /\ resp.arg.stats.v.totalUsers = 0

\* C14: with readFileSync and writeDB succeeding, each step of the walk
\* answers as stated from the state the steps before it leave: createSession
\* stores minedTokens 0 and miningSpeed 20; setSessionState minedTokens = 10
\* stores 10; createWithdrawal of 5 on a balance of 10 answers newBalance 5
\* and stores a pending withdrawal; completeWithdrawal of a pending withdrawal
\* by its owner stores status completed; completeWithdrawal of a completed one
\* by its owner answers AlreadyCompleted; createWithdrawal of 0.0001 on a
\* balance of 5 answers InvalidInput.
C14_EndToEnd ==
    [][/\ resp'.op = "createSession"
          => /\ resp'.code = "ok"
             /\ resp'.val = 20
             /\ Sessions'[resp'.sid].minedTokens = 0
             /\ Sessions'[resp'.sid].miningSpeed = 20
       /\ (resp'.op = "setSessionState" /\ resp'.sid \in DOMAIN Sessions)
          => /\ resp'.code = "ok"
             /\ Sessions'[resp'.sid].minedTokens = 100000
       /\ ( /\ resp'.op = "createWithdrawal"
            /\ resp'.sid \in DOMAIN Sessions
            /\ Sessions[resp'.sid].minedTokens = 100000
            /\ resp'.arg.amount = Num(50000)
            /\ resp'.arg.wallet )
          => /\ resp'.code = "ok"
             /\ resp'.val = 50000
             /\ Sessions'[resp'.sid].minedTokens = 50000
             /\ Withdrawals'[resp'.ref].status = "pending"
       /\ ( /\ resp'.op = "completeWithdrawal"
            /\ resp'.ref \in DOMAIN Withdrawals
            /\ Withdrawals[resp'.ref].sessionId = resp'.sid )
          => IF Withdrawals[resp'.ref].status = "pending"
             THEN /\ resp'.code = "ok"
                  /\ Withdrawals'[resp'.ref].status = "completed"
             ELSE /\ resp'.code = "AlreadyCompleted"
                  /\ file' = file
       /\ ( /\ resp'.op = "createWithdrawal"
            /\ resp'.sid \in DOMAIN Sessions
            /\ Sessions[resp'.sid].minedTokens = 50000
            /\ resp'.arg.amount = Num(1)
            /\ resp'.arg.wallet )
          => /\ resp'.code = "InvalidInput"
             /\ file' = file
      ]_vars

\* The end of the walk: 0.0001 refused on a balance of 5 with the withdrawal
\* of 5 completed.
C14_Witness ==
    /\ resp.op = "createWithdrawal"
    /\ resp.code = "InvalidInput"
    /\ resp.arg.amount = Num(1)
    /\ resp.sid \in DOMAIN Sessions
    /\ Sessions[resp.sid].minedTokens = 50000
    /\ \E w \in DOMAIN Withdrawals :
          /\ Withdrawals[w].status = "completed"
          /\ Withdrawals[w].amount = 50000
          /\ Withdrawals[w].sessionId = resp.sid

\* C15: createWithdrawal for an existing session, with a wallet, answers
\* InvalidInput for an amount that is not a number or is below 0.001,
\* whatever the balance, and InsufficientBalance for an amount of at least
\* 0.001 above the balance.
C15_AmountBeforeBalance ==
    [][( /\ resp'.op = "createWithdrawal"
         /\ resp'.sid \in DOMAIN Sessions
         /\ resp'.arg.wallet
         /\ resp'.arg.amount.t # "undefined" )
       => /\ (resp'.arg.amount.t = "NaN" \/ resp'.arg.amount.n < MinWithdrawal)
               => resp'.code = "InvalidInput"
          /\ ( /\ resp'.arg.amount.t = "number"
               /\ resp'.arg.amount.n >= MinWithdrawal
               /\ resp'.arg.amount.n > Sessions[resp'.sid].minedTokens )
               => resp'.code = "InsufficientBalance"
      ]_vars

\* C16: with readFileSync and writeDB succeeding, verifyBoost of a stored
\* boost and completeWithdrawal of a stored withdrawal with a sessionId that
\* is not the owner's answer Unauthorized and change nothing; a step that
\* changes a session's miningSpeed through a boost is a verifyBoost with the
\* id of the boost's owner, which is that session; and a step that makes a
\* withdrawal completed is a completeWithdrawal with its owner's id.
Boosts == file.db.boosts

C16_OnlyTheOwner ==
    [][/\ (resp'.op = "verifyBoost" /\ FindBoost(file.db, resp'.ref) # 0)
          => LET owner == Boosts[FindBoost(file.db, resp'.ref)].sessionId
             IN  IF resp'.sid # owner
                 THEN resp'.code = "Unauthorized" /\ file' = file
                 ELSE \A s \in DOMAIN Sessions \cap DOMAIN Sessions' :
                         Sessions'[s].miningSpeed # Sessions[s].miningSpeed
                            => s = owner
       /\ \A i \in 1..Len(Boosts) :
             (~Boosts[i].verified /\ Boosts'[i].verified)
                => /\ resp'.op = "verifyBoost"
                   /\ resp'.ref = Boosts[i].id
                   /\ resp'.sid = Boosts[i].sessionId
       /\ ( /\ resp'.op = "completeWithdrawal"
            /\ resp'.ref \in DOMAIN Withdrawals
            /\ resp'.sid # Withdrawals[resp'.ref].sessionId )
          => resp'.code = "Unauthorized" /\ file' = file
       /\ \A w \in DOMAIN Withdrawals :
             (Withdrawals[w].status # "completed" /\ Withdrawals'[w].status = "completed")
                => /\ resp'.op = "completeWithdrawal"
                   /\ resp'.ref = w
                   /\ resp'.sid = Withdrawals[w].sessionId
      ]_vars

\* A completion with another id was refused while the withdrawal is pending
\* and the owner's boost is verified.
C16_Witness ==
    /\ resp.op = "completeWithdrawal"
    /\ resp.code = "Unauthorized"
    /\ resp.ref \in DOMAIN Withdrawals
    /\ Withdrawals[resp.ref].status = "pending"
    /\ \E i \in 1..Len(Boosts) : Boosts[i].verified

\* C17: with readFileSync and writeDB succeeding, a setSessionState of a
\* stored session leaves each of minedTokens, miningSpeed, completedTasks,
\* totalMiningTime and dailyMined that the request does not carry at its
\* stored value, and leaves every other session and the set of sessions as
\* they were.
C17_OnlyFieldsPresent ==
    [][(resp'.op = "setSessionState" /\ resp'.sid \in DOMAIN Sessions)
         => LET body == resp'.arg
                old == Sessions[resp'.sid]
                new == Sessions'[resp'.sid]
            IN  /\ DOMAIN Sessions' = DOMAIN Sessions
                /\ body.minedTokens.t = "undefined"
                      => new.minedTokens = old.minedTokens
                /\ body.miningSpeed.t = "undefined"
                      => new.miningSpeed = old.miningSpeed
                /\ body.completedTasks.t = "undefined"
                      => new.completedTasks = old.completedTasks
                /\ body.totalMiningTime.t = "undefined"
                      => new.totalMiningTime = old.totalMiningTime
                /\ body.dailyMined.t = "undefined"
                      => new.dailyMined = old.dailyMined
                /\ \A o \in DOMAIN Sessions \ {resp'.sid} :
                      Sessions'[o] = Sessions[o]
      ]_vars

\* An update without any field was applied to a session whose five fields
\* all differ from those of a new session.
C17_Witness ==
    /\ resp.op = "setSessionState"
    /\ resp.code = "ok"
    /\ resp.arg = NoBody
    /\ resp.sid \in DOMAIN Sessions
    /\ LET s == Sessions[resp.sid]
       IN  /\ s.minedTokens = 5
           /\ s.miningSpeed = 5
           /\ s.totalMiningTime = 5
           /\ s.dailyMined = 5
           /\ s.completedTasks = <<1>>

\* C18: with readFileSync and writeDB succeeding, a setSessionState that
\* carries minedTokens, miningSpeed, totalMiningTime or dailyMined with a
\* value that is not a number leaves that stored field at its previous
\* value.
C18_InvalidKeepsPrevious ==
    [][(resp'.op = "setSessionState" /\ resp'.sid \in DOMAIN Sessions)
         => LET body == resp'.arg
                old == Sessions[resp'.sid]
                new == Sessions'[resp'.sid]
            IN  /\ body.minedTokens.t = "NaN"
                      => new.minedTokens = old.minedTokens
                /\ body.miningSpeed.t = "NaN"
                      => new.miningSpeed = old.miningSpeed
                /\ body.totalMiningTime.t = "NaN"
                      => new.totalMiningTime = old.totalMiningTime
                /\ body.dailyMined.t = "NaN"
                      => new.dailyMined = old.dailyMined
      ]_vars

\* C19: with readFileSync and writeDB succeeding, after n activity-log
\* requests the file's activities list holds min(n, 1000) records, which are
\* the last min(n, 1000) activities logged, oldest first.
Activities == file.db.activities
Logged == nextId.activity - 1

C19_ActivitiesCapped ==
    LET k == IF Logged < ActivityCap THEN Logged ELSE ActivityCap
    IN  /\ Len(Activities) <= ActivityCap
        /\ Len(Activities) = k
        /\ \A i \in 1..k : Activities[i].id = Logged - k + i

\* More than 1000 activities were logged and the oldest are gone.
C19_Witness ==
    /\ resp.op = "activity"
    /\ Logged > ActivityCap
    /\ Len(Activities) = ActivityCap
    /\ Activities[1].id = Logged - ActivityCap + 1
    /\ Activities[ActivityCap].id = Logged

\* C20: whatever readFileSync and writeDB do, a withdrawal stored in
\* database.json is still stored in it after every step, sweeps and failed
\* loads included.
C20_WithdrawalsNeverDeleted ==
    [][(file.st = "ok" /\ file'.st = "ok")
         => \A w \in DOMAIN Withdrawals : w \in DOMAIN Withdrawals'
      ]_vars

\* C21: with readFileSync and writeDB succeeding, a completeWithdrawal that
\* answers success changes, in the file, only status, completedAt and
\* ogadsVerified of that withdrawal and lastActive of its session: the set of
\* sessions and every other field of every session (minedTokens included),
\* every other withdrawal, the boosts, the activities and the stats are as
\* before.
C21_CompleteMovesNoBalance ==
    [][(resp'.op = "completeWithdrawal" /\ resp'.code = "ok")
         => LET w == resp'.ref
            IN  /\ DOMAIN Sessions' = DOMAIN Sessions
                /\ \A s \in DOMAIN Sessions :
                      /\ Sessions'[s].minedTokens = Sessions[s].minedTokens
                      /\ [Sessions'[s] EXCEPT !.lastActive = 0]
                            = [Sessions[s] EXCEPT !.lastActive = 0]
                      /\ s # resp'.sid => Sessions'[s] = Sessions[s]
                /\ DOMAIN Withdrawals' = DOMAIN Withdrawals
                /\ \A o \in DOMAIN Withdrawals \ {w} :
                      Withdrawals'[o] = Withdrawals[o]
                /\ [Withdrawals'[w] EXCEPT !.status = "completed",
                                           !.completedAt = 0,
                                           !.ogadsVerified = TRUE]
                      = [Withdrawals[w] EXCEPT !.status = "completed",
                                              !.completedAt = 0,
                                              !.ogadsVerified = TRUE]
                /\ Withdrawals'[w].status = "completed"
                /\ Withdrawals'[w].ogadsVerified
                /\ file'.db.boosts = file.db.boosts
                /\ file'.db.activities = file.db.activities
                /\ file'.db.stats = file.db.stats
      ]_vars

\* A completion succeeded for a session that holds a balance and a verified
\* boost.
C21_Witness ==
    /\ resp.op = "completeWithdrawal"
    /\ resp.code = "ok"
    /\ resp.sid \in DOMAIN Sessions
    /\ Sessions[resp.sid].minedTokens > 0
    /\ Withdrawals[resp.ref].status = "completed"
    /\ \E i \in 1..Len(Boosts) : Boosts[i].verified

C23_CountsAgree ==
    file.st = "ok"
      => /\ file.db.stats.activeSessions = Cardinality(DOMAIN Sessions)
         /\ file.db.stats.totalUsers = Cardinality(DOMAIN Sessions)
         /\ file.db.stats.totalBoostCount = Len(Boosts)
         /\ file.db.stats.totalWithdrawalCount = Cardinality(DOMAIN Withdrawals)

\* C24: with readFileSync and writeDB succeeding, createBoost with the id of
\* no stored session answers NotFound and leaves the file as it was; with the
\* id of a stored session it appends exactly one boost, not verified, owned
\* by that session, with an amount a, 10 <= a < 25, which it reports,
\* appends the boost's id to the session's boosts and leaves the session's
\* miningSpeed and the boosts already stored as they were.
C24_CreateBoostRecordsOne ==
    [][(resp'.op = "createBoost" /\ resp'.sid # NoId)
         => IF resp'.sid \notin DOMAIN Sessions
            THEN resp'.code = "NotFound" /\ file' = file
            ELSE LET n == Len(Boosts)
                     b == Boosts'[n + 1]
                 IN  /\ resp'.code = "ok"
                     /\ Len(Boosts') = n + 1
                     /\ SubSeq(Boosts', 1, n) = Boosts
                     /\ b.id = resp'.ref
                     /\ \A i \in 1..n : Boosts[i].id # b.id
                     /\ b.sessionId = resp'.sid
                     /\ b.verified = FALSE
                     /\ BoostBase <= b.boostAmount
                     /\ b.boostAmount < BoostBase + BoostSpan
                     /\ resp'.val = b.boostAmount
                     /\ Sessions'[resp'.sid].boosts
                           = Append(Sessions[resp'.sid].boosts, b.id)
                     /\ Sessions'[resp'.sid].miningSpeed
                           = Sessions[resp'.sid].miningSpeed
      ]_vars

\* A boost of the largest amount was created for a session whose speed had
\* been set.
C24_Witness ==
    /\ resp.op = "createBoost"
    /\ resp.code = "ok"
    /\ resp.val = BoostBase + BoostSpan - 1
    /\ Sessions[resp.sid].miningSpeed = 30
    /\ Sessions[resp.sid].boosts = <<resp.ref>>

\* C25: with readFileSync and writeDB succeeding, a setSessionState of a
\* stored session that carries minedTokens, miningSpeed, totalMiningTime or
\* dailyMined as a number, 0 included, stores that number in the field.
C25_ValidNumberIsStored ==
    [][(resp'.op = "setSessionState" /\ resp'.sid \in DOMAIN Sessions)
         => LET body == resp'.arg
                new == Sessions'[resp'.sid]
            IN  /\ body.minedTokens.t = "number"
                      => new.minedTokens = body.minedTokens.n
                /\ body.miningSpeed.t = "number"
                      => new.miningSpeed = body.miningSpeed.n
                /\ body.totalMiningTime.t = "number"
                      => new.totalMiningTime = body.totalMiningTime.n
                /\ body.dailyMined.t = "number"
                      => new.dailyMined = body.dailyMined.n
      ]_vars

\* C26: with readFileSync succeeding, an operation that answers NotFound,
\* Unauthorized, InvalidInput, InsufficientBalance or AlreadyCompleted calls
\* no writeDB and leaves database.json and its temporary file exactly as they
\* were, lastActive timestamps included.
Rejections ==
    {"NotFound", "Unauthorized", "InvalidInput", "InsufficientBalance",
     "AlreadyCompleted"}

C26_RejectionSavesNothing ==
    [][resp'.code \in Rejections
         => /\ resp'.wr = "none"
            /\ file' = file
            /\ tmp' = tmp
      ]_vars

\* A completed withdrawal was refused again after the clock had moved on
\* from its session's lastActive.
C26_Witness ==
    /\ resp.code = "AlreadyCompleted"
    /\ resp.sid \in DOMAIN Sessions
    /\ Sessions[resp.sid].lastActive < now

\* C27: with readFileSync and writeDB succeeding, once its owning session
\* is no longer stored, verifyBoost of a boost with the owner's id answers
\* success with newSpeed 0 and marks the boost verified, and
\* completeWithdrawal of a pending withdrawal with the owner's id answers
\* success and makes it completed; neither changes the stored sessions.
C27_OrphansStillServed ==
    [][/\ ( /\ resp'.op = "verifyBoost"
            /\ FindBoost(file.db, resp'.ref) # 0
            /\ Boosts[FindBoost(file.db, resp'.ref)].sessionId = resp'.sid
            /\ resp'.sid \notin DOMAIN Sessions )
          => /\ resp'.code = "ok"
             /\ resp'.val = 0
             /\ Boosts'[FindBoost(file.db, resp'.ref)].verified
             /\ Sessions' = Sessions
       /\ ( /\ resp'.op = "completeWithdrawal"
            /\ resp'.ref \in DOMAIN Withdrawals
            /\ Withdrawals[resp'.ref].sessionId = resp'.sid
            /\ Withdrawals[resp'.ref].status = "pending"
            /\ resp'.sid \notin DOMAIN Sessions )
          => /\ resp'.code = "ok"
             /\ Withdrawals'[resp'.ref].status = "completed"
             /\ Sessions' = Sessions
      ]_vars

\* After the sweep of their session, a boost was verified and then a
\* withdrawal completed, with the removed session's id.
C27_Witness ==
    /\ resp.op = "completeWithdrawal"
    /\ resp.code = "ok"
    /\ resp.sid \notin DOMAIN Sessions
    /\ Withdrawals[resp.ref].status = "completed"
    /\ Withdrawals[resp.ref].completedAt > Withdrawals[resp.ref].createdAt
    /\ \E i \in 1..Len(Boosts) :
          /\ Boosts[i].sessionId = resp.sid
          /\ Boosts[i].verified
          /\ Boosts[i].verifiedAt > Boosts[i].createdAt

\* C28: a session id that was handed out and is no longer stored in
\* database.json is not stored after any later step either, and
\* getSessionState, setSessionState, createBoost and createWithdrawal for it
\* answer NotFound.
SessionRoutes ==
    {"getSessionState", "setSessionState", "createBoost", "createWithdrawal"}

C28_SweptNeverReturns ==
    [][(file.st = "ok" /\ file'.st = "ok")
         => \A s \in 1..(nextId.session - 1) :
               s \notin DOMAIN Sessions
                 => /\ s \notin DOMAIN Sessions'
                    /\ (resp'.op \in SessionRoutes /\ resp'.sid = s)
                          => resp'.code = "NotFound"
      ]_vars

\* C29: in the file the program wrote, every id in a session's withdrawals
\* is a key of the withdrawals map whose record names that session, and every
\* id in a session's boosts is the id of exactly one record of the boosts
\* list, which names that session.
C29_ListsPointAtOwnRecords ==
    file.st = "ok"
      => \A s \in DOMAIN Sessions :
            /\ \A i \in 1..Len(Sessions[s].withdrawals) :
                  LET w == Sessions[s].withdrawals[i]
                  IN  /\ w \in DOMAIN Withdrawals
                      /\ Withdrawals[w].sessionId = s
            /\ \A i \in 1..Len(Sessions[s].boosts) :
                  LET b == Sessions[s].boosts[i]
                  IN  /\ Cardinality({j \in 1..Len(Boosts) : Boosts[j].id = b}) = 1
                      /\ \A j \in 1..Len(Boosts) :
                            Boosts[j].id = b => Boosts[j].sessionId = s

\* A stored session lists a withdrawal and a boost of its own.
C29_Witness ==
    /\ file.st = "ok"
    /\ \E s \in DOMAIN Sessions :
          /\ Len(Sessions[s].withdrawals) > 0
          /\ Len(Sessions[s].boosts) > 0
          /\ Sessions[s].withdrawals[1] \in DOMAIN Withdrawals
          /\ \E j \in 1..Len(Boosts) : Boosts[j].id = Sessions[s].boosts[1]

=============================================================================
